---- MODULE Spec2Model ----
(***************************************************************************)
(* A model of scripts/reset_test_project.py: the repository reset script.  *)
(* One run of the script is a sequential process; every external git       *)
(* command is one atomic step whose exit status is chosen by the           *)
(* environment.  The git commands' effects on the repository follow git's  *)
(* documented semantics; a failed command leaves the repository unchanged. *)
(* The task helpers of test_project (task_utils.py) are pure functions;    *)
(* they are operators, applied under specifications of their own.          *)
(***************************************************************************)
EXTENDS Naturals, Sequences, FiniteSets, TLC

\* ------------------------------------------------------------------ bounds
\* Number of feature branches a repository may hold besides main and master.
MaxOther == 1

\* Number of times the script is invoked in succession on one repository.
MaxRuns == 2

\* Longest task list handed to the task helpers.
MaxTasks == 3

\* Number of ids the task API hands out.
MaxCreates == 3

\* ------------------------------------------------------------- the universe
FeatureNames == <<"feature/a", "feature/b", "feature/c", "feature/d">>

Features == {FeatureNames[i] : i \in 1..MaxOther}

BranchNames == {"main", "master"} \cup Features

\* git lists branches in name order.
BranchOrder == FeatureNames \o <<"main", "master">>

\* Python's None, for a variable that holds a string or None.
None == "<None>"

\* os.path: the target path does not exist, is a regular file, is a
\* directory without .git, or is a directory holding a .git directory.
PathKinds == {"missing", "file", "dir", "repo"}

StepOrder ==
    <<"Validate", "ResolveTrunk", "Stash", "Checkout", "VerifyCheckout",
      "Fetch", "HardReset", "Clean", "Prune">>

StepNames == {StepOrder[i] : i \in 1..Len(StepOrder)}

VARIABLES
    gitIsFile,        \* os.path.isfile(GIT_EXECUTABLE)
    pathKind,         \* what repo_full_path names on disk
    repo,             \* the repository on disk
    repo0,            \* the repository as the run found it
    pc,               \* position of the script
    exitCode,         \* process exit status: <<>> while running, then <<code>>
    ended,            \* which exit the run took
    main_branch,      \* reset_repository's main_branch
    reset_target,     \* reset_repository's reset_target
    stash_result,     \* outcome of the stash push
    branches,         \* the parsed branch listing
    idx,              \* position of the loop over branches
    deleted_count,
    failed_deletions,
    cmds,             \* every git command issued, in order
    steps,            \* the steps entered, in order
    res,              \* per step: "none", "ok" or "fail"
    runNo,            \* which invocation of the script this is
    prev,             \* how the previous invocation ended and left the repository
    tasks,            \* the argument of calculate_task_statistics
    stats,            \* what calculate_task_statistics returned
    TASKS,            \* app.py's task store
    task_id_counter,  \* app.py's id counter
    removed,          \* the ids of the tasks deleted so far
    request           \* the request served last, with its response status

vars ==
    <<gitIsFile, pathKind, repo, repo0, pc, exitCode, ended, main_branch,
      reset_target, stash_result, branches, idx, deleted_count,
      failed_deletions, cmds, steps, res, runNo, prev, tasks, stats,
      TASKS, task_id_counter, removed, request>>

\* The state of the task API.
api == <<TASKS, task_id_counter, removed, request>>

\* What no step of one invocation changes.
env == <<gitIsFile, pathKind, repo0, runNo, prev, tasks, stats, api>>

locals == <<main_branch, reset_target, stash_result, branches, idx,
            deleted_count, failed_deletions>>

\* ------------------------------------------------------------- repository
Commits == {"c1", "c2"}

\* What the remote's trunk points at; a successful fetch brings it to origin/<trunk>.
RemoteTip == "c2"

\* branches: the local branches; current: the checked-out branch ("" on a
\* detached HEAD, which is what `git branch --show-current` prints then);
\* dirty: tracked files differ from HEAD; untracked: untracked or ignored
\* files exist; stashes: entries on the stash stack; tip: the commit of the
\* trunk branch; origin: the commit of the remote-tracking ref of trunk.
Repos ==
    [branches : SUBSET BranchNames,
     current : BranchNames \cup {""},
     dirty : BOOLEAN,
     untracked : BOOLEAN,
     stashes : {0},
     tip : Commits,
     origin : Commits]

RepoOK(r) == r.current \in r.branches \cup {""}

\* What stands for the repository when the path holds none.
NoRepo ==
    [branches |-> {}, current |-> "", dirty |-> FALSE, untracked |-> FALSE,
     stashes |-> 0, tip |-> "c1", origin |-> "c1"]

\* No previous invocation.
NoPrev == [ended |-> "none", repo |-> NoRepo, deleted_count |-> 0, failed |-> {}]

\* One git command as issued: its argument vector (without the executable),
\* the exit status it returned and what was read from its stdout.
Cmd(op, arg, rc, out) == [op |-> op, arg |-> arg, rc |-> rc, out |-> out]

\* ------------------------------------------------------------- run_command
\* Mutant of run_command: a non-zero exit status is not turned into None
\* (subprocess.run without check=True).
run_command_NeverNone(rc, stdout) == [none |-> FALSE, out |-> stdout]

\* run_command returns the stripped stdout when the command exits 0 and
\* None otherwise.  The FileNotFoundError exit cannot be taken in a run:
\* __main__ has checked os.path.isfile(GIT_EXECUTABLE) and repo_path is an
\* existing directory.
run_command(rc, stdout) ==
    IF rc = 0 THEN [none |-> FALSE, out |-> stdout]
    ELSE [none |-> TRUE, out |-> stdout]

\* Exit statuses git reports: 0 or a failure.
ReturnCodes == {0, 1}

\* The reset script about to be invoked.
InitReset ==
    /\ gitIsFile \in BOOLEAN
    /\ pathKind \in PathKinds
    /\ repo \in {r \in Repos : RepoOK(r)}
    /\ pathKind # "repo" => repo = NoRepo
    /\ repo0 = repo
    /\ pc = "main"
    /\ exitCode = <<>>
    /\ ended = "running"
    /\ main_branch = None
    /\ reset_target = None
    /\ stash_result = None
    /\ branches = <<>>
    /\ idx = 0
    /\ deleted_count = 0
    /\ failed_deletions = <<>>
    /\ cmds = <<>>
    /\ steps = <<>>
    /\ res = [s \in StepNames |-> "none"]
    /\ runNo = 1
    /\ prev = NoPrev

\* ------------------------------------------------------------- task API
\* request.get_json(): null (or no body), a JSON object or a JSON array.
\* An object is held in `fields`, the elements of an array in `items`.
Json(kind, items, fields) == [kind |-> kind, items |-> items, fields |-> fields]

JsonNull == Json("null", {}, [k \in {} |-> 0])

\* No request was served yet.
NoRequest == [op |-> "none", task_id |-> 0, data |-> JsonNull, status |-> 0]

\* app.py, lines 12-14: the store is empty and the counter is 0.
ApiIdle ==
    /\ TASKS = <<>>
    /\ task_id_counter = 0
    /\ removed = {}
    /\ request = NoRequest

Init ==
    /\ InitReset
    /\ tasks = <<>>
    /\ stats = None
    /\ ApiIdle

\* sys.exit(code), or returning to the end of the script (status 0).
Exit(code, how) ==
    /\ pc' = "exit"
    /\ exitCode' = <<code>>
    /\ ended' = how

\* __main__: the checks made before reset_repository is called.
Main ==
    /\ pc = "main"
    /\ steps' = Append(steps, "Validate")
    /\ IF ~gitIsFile \/ pathKind = "missing" \/ pathKind = "file"
       THEN /\ Exit(1, "config")
            /\ res' = [res EXCEPT !["Validate"] = "fail"]
       ELSE /\ pc' = "reset_repository"
            /\ UNCHANGED <<exitCode, ended, res>>
    /\ UNCHANGED <<env, repo, locals, cmds>>

\* Mutant of CheckGitDir: the .git test is left out.
CheckGitDir_NoCheck ==
    /\ pc = "reset_repository"
    /\ pc' = "show_ref_main"
    /\ res' = [res EXCEPT !["Validate"] = "ok"]
    /\ UNCHANGED <<exitCode, ended>>
    /\ UNCHANGED <<env, repo, locals, cmds, steps>>

\* reset_repository, lines 58-64: the path must hold a .git directory.
CheckGitDir ==
    /\ pc = "reset_repository"
    /\ IF pathKind # "repo"
       THEN /\ Exit(0, "notrepo")
            /\ res' = [res EXCEPT !["Validate"] = "fail"]
       ELSE /\ pc' = "show_ref_main"
            /\ res' = [res EXCEPT !["Validate"] = "ok"]
            /\ UNCHANGED <<exitCode, ended>>
    /\ UNCHANGED <<env, repo, locals, cmds, steps>>

\* `git show-ref --verify --quiet refs/heads/<b>` exits 0 iff the branch exists.
ShowRefCode(r, b) == IF b \in r.branches THEN 0 ELSE 1

\* Mutant of ShowRefMain: master is queried whether or not main was found.
ShowRefMain_AlwaysBoth ==
    /\ pc = "show_ref_main"
    /\ cmds' = Append(cmds, Cmd("show-ref", "refs/heads/main",
                                ShowRefCode(repo, "main"), ""))
    /\ steps' = Append(steps, "ResolveTrunk")
    /\ IF ~run_command(ShowRefCode(repo, "main"), "").none
       THEN /\ main_branch' = "main"
            /\ res' = [res EXCEPT !["ResolveTrunk"] = "ok"]
       ELSE UNCHANGED <<main_branch, res>>
    /\ pc' = "show_ref_master"
    /\ UNCHANGED <<env, repo, exitCode, ended, reset_target, stash_result,
                   branches, idx, deleted_count, failed_deletions>>

\* get_main_branch_name, lines 44-47.
ShowRefMain ==
    /\ pc = "show_ref_main"
    /\ cmds' = Append(cmds, Cmd("show-ref", "refs/heads/main",
                                ShowRefCode(repo, "main"), ""))
    /\ steps' = Append(steps, "ResolveTrunk")
    /\ IF ~run_command(ShowRefCode(repo, "main"), "").none
       THEN /\ main_branch' = "main"
            /\ res' = [res EXCEPT !["ResolveTrunk"] = "ok"]
            /\ pc' = "stash"
       ELSE /\ pc' = "show_ref_master"
            /\ UNCHANGED <<main_branch, res>>
    /\ UNCHANGED <<env, repo, exitCode, ended, reset_target, stash_result,
                   branches, idx, deleted_count, failed_deletions>>

\* get_main_branch_name, lines 48-54, and the caller's abort, lines 68-70.
ShowRefMaster ==
    /\ pc = "show_ref_master"
    /\ cmds' = Append(cmds, Cmd("show-ref", "refs/heads/master",
                                ShowRefCode(repo, "master"), ""))
    /\ IF ~run_command(ShowRefCode(repo, "master"), "").none
       THEN /\ main_branch' = "master"
            /\ res' = [res EXCEPT !["ResolveTrunk"] = "ok"]
            /\ pc' = "stash"
            /\ UNCHANGED <<exitCode, ended>>
       ELSE /\ res' = [res EXCEPT !["ResolveTrunk"] = "fail"]
            /\ Exit(0, "aborted")
            /\ UNCHANGED main_branch
    /\ UNCHANGED <<env, repo, steps, reset_target, stash_result,
                   branches, idx, deleted_count, failed_deletions>>

\* ------------------------------------------------------------ stash
StashSaved == "Saved working directory and index state On branch: AutoAgentResetStash"

StashNothing == "No local changes to save"

\* Mutant of HasNoLocalChanges: the output is not looked at.
HasNoLocalChanges_Never(stdout) == FALSE

\* `"No local changes" in stdout`, over the outputs git stash push prints.
HasNoLocalChanges(stdout) == stdout = StashNothing

\* What `git stash push --include-untracked` can report on repository r:
\* a stash entry is saved only if something is there to save; ignored files
\* (counted in untracked) are not stashed, so with untracked files alone
\* either report is possible.
StashOutcomes(r) ==
    {[returncode |-> 1, stdout |-> ""]}
      \cup (IF r.dirty \/ r.untracked
            THEN {[returncode |-> 0, stdout |-> StashSaved]} ELSE {})
      \cup (IF ~r.dirty
            THEN {[returncode |-> 0, stdout |-> StashNothing]} ELSE {})

\* reset_repository, lines 72-85 up to the drop: the stash push and the
\* decision taken on its result.
StashPush ==
    /\ pc = "stash"
    /\ steps' = Append(steps, "Stash")
    /\ \E o \in StashOutcomes(repo) :
         /\ cmds' = Append(cmds, Cmd("stash push", "AutoAgentResetStash",
                                     o.returncode, o.stdout))
         /\ stash_result' = o
         /\ IF o.returncode = 0 /\ ~HasNoLocalChanges(o.stdout)
            THEN /\ \E left \in (IF repo.untracked THEN BOOLEAN ELSE {FALSE}) :
                      repo' = [repo EXCEPT !.dirty = FALSE, !.untracked = left,
                                           !.stashes = @ + 1]
                 /\ pc' = "stash_drop"
                 /\ UNCHANGED res
            ELSE /\ pc' = "checkout"
                 /\ res' = [res EXCEPT !["Stash"] =
                                IF o.returncode # 0 THEN "fail" ELSE "ok"]
                 /\ UNCHANGED repo
    /\ UNCHANGED <<env, exitCode, ended, main_branch, reset_target,
                   branches, idx, deleted_count, failed_deletions>>

\* Mutant of StashDrop: a failed drop aborts the run.
StashDrop_Abort ==
    /\ pc = "stash_drop"
    /\ \E rc \in ReturnCodes :
         LET drop_output == run_command(rc, "") IN
         /\ cmds' = Append(cmds, Cmd("stash drop", "", rc, ""))
         /\ repo' = IF rc = 0 THEN [repo EXCEPT !.stashes = @ - 1] ELSE repo
         /\ IF drop_output.none
            THEN /\ res' = [res EXCEPT !["Stash"] = "fail"]
                 /\ Exit(0, "aborted")
            ELSE /\ res' = [res EXCEPT !["Stash"] = "ok"]
                 /\ pc' = "checkout"
                 /\ UNCHANGED <<exitCode, ended>>
    /\ UNCHANGED <<env, locals, steps>>

\* reset_repository, lines 79-81: drop the stash entry just made; a failed
\* drop is a warning.
StashDrop ==
    /\ pc = "stash_drop"
    /\ \E rc \in ReturnCodes :
         LET drop_output == run_command(rc, "") IN
         /\ cmds' = Append(cmds, Cmd("stash drop", "", rc, ""))
         /\ repo' = IF rc = 0 THEN [repo EXCEPT !.stashes = @ - 1] ELSE repo
         /\ res' = [res EXCEPT !["Stash"] =
                        IF drop_output.none THEN "fail" ELSE "ok"]
    /\ pc' = "checkout"
    /\ UNCHANGED <<env, exitCode, ended, locals, steps>>

\* --------------------------------------------------- checkout and verify
\* Mutant of Checkout: a failed checkout is tried again.
Checkout_Retry ==
    /\ pc = "checkout"
    /\ steps' = Append(steps, "Checkout")
    /\ \E rc \in ReturnCodes, moved \in BOOLEAN :
         /\ cmds' = Append(cmds, Cmd("checkout", main_branch, rc, ""))
         /\ IF run_command(rc, "").none
            THEN /\ ~moved
                 /\ res' = [res EXCEPT !["Checkout"] = "fail"]
                 /\ pc' = "checkout"
                 /\ UNCHANGED repo
            ELSE /\ repo' = IF moved THEN [repo EXCEPT !.current = main_branch]
                            ELSE repo
                 /\ res' = [res EXCEPT !["Checkout"] = "ok"]
                 /\ pc' = "verify"
    /\ UNCHANGED <<env, locals, exitCode, ended>>

\* Mutant of Checkout: the result of the checkout is not looked at.
Checkout_Ignore ==
    /\ pc = "checkout"
    /\ steps' = Append(steps, "Checkout")
    /\ \E rc \in ReturnCodes, moved \in BOOLEAN :
         /\ cmds' = Append(cmds, Cmd("checkout", main_branch, rc, ""))
         /\ rc # 0 => ~moved
         /\ repo' = IF moved THEN [repo EXCEPT !.current = main_branch]
                    ELSE repo
         /\ res' = [res EXCEPT !["Checkout"] = IF rc = 0 THEN "ok" ELSE "fail"]
    /\ pc' = "verify"
    /\ UNCHANGED <<env, locals, exitCode, ended>>

\* reset_repository, lines 88-92.  A checkout that exits 0 normally moves
\* HEAD to the branch; `moved` is FALSE for one that exits 0 without doing so.
Checkout ==
    /\ pc = "checkout"
    /\ steps' = Append(steps, "Checkout")
    /\ \E rc \in ReturnCodes, moved \in BOOLEAN :
         /\ cmds' = Append(cmds, Cmd("checkout", main_branch, rc, ""))
         /\ IF run_command(rc, "").none
            THEN /\ ~moved
                 /\ res' = [res EXCEPT !["Checkout"] = "fail"]
                 /\ Exit(0, "aborted")
                 /\ UNCHANGED repo
            ELSE /\ repo' = IF moved THEN [repo EXCEPT !.current = main_branch]
                            ELSE repo
                 /\ res' = [res EXCEPT !["Checkout"] = "ok"]
                 /\ pc' = "verify"
                 /\ UNCHANGED <<exitCode, ended>>
    /\ UNCHANGED <<env, locals>>

\* stdout of `git branch --show-current`, stripped: the branch name, or the
\* empty string on a detached HEAD.
ShowCurrent(r) == r.current

\* Mutant of VerifyCheckout: a failed query (None) is let through, only a
\* different branch name aborts.
VerifyCheckout_Lenient ==
    /\ pc = "verify"
    /\ steps' = Append(steps, "VerifyCheckout")
    /\ \E rc \in ReturnCodes :
         LET r == run_command(rc, ShowCurrent(repo))
             current_branch_check == IF r.none THEN None ELSE r.out
         IN
         /\ cmds' = Append(cmds, Cmd("branch --show-current", "", rc,
                                     ShowCurrent(repo)))
         /\ IF current_branch_check # None /\ current_branch_check # main_branch
            THEN /\ res' = [res EXCEPT !["VerifyCheckout"] = "fail"]
                 /\ Exit(0, "aborted")
            ELSE /\ res' = [res EXCEPT !["VerifyCheckout"] = "ok"]
                 /\ pc' = "fetch"
                 /\ UNCHANGED <<exitCode, ended>>
    /\ UNCHANGED <<env, repo, locals>>

\* reset_repository, lines 94-98.
VerifyCheckout ==
    /\ pc = "verify"
    /\ steps' = Append(steps, "VerifyCheckout")
    /\ \E rc \in ReturnCodes :
         LET r == run_command(rc, ShowCurrent(repo))
             current_branch_check == IF r.none THEN None ELSE r.out
         IN
         /\ cmds' = Append(cmds, Cmd("branch --show-current", "", rc,
                                     ShowCurrent(repo)))
         /\ IF current_branch_check # main_branch
             THEN /\ res' = [res EXCEPT !["VerifyCheckout"] = "fail"]
                  /\ Exit(0, "aborted")
             ELSE /\ res' = [res EXCEPT !["VerifyCheckout"] = "ok"]
                  /\ pc' = "fetch"
                  /\ UNCHANGED <<exitCode, ended>>
    /\ UNCHANGED <<env, repo, locals>>

\* ------------------------------------------------------ fetch and reset
\* Mutant of Fetch: a failed fetch aborts the run.
Fetch_Abort ==
    /\ pc = "fetch"
    /\ steps' = Append(steps, "Fetch")
    /\ \E rc \in ReturnCodes :
         /\ cmds' = Append(cmds, Cmd("fetch origin", main_branch, rc, ""))
         /\ IF run_command(rc, "").none
            THEN /\ res' = [res EXCEPT !["Fetch"] = "fail"]
                 /\ Exit(0, "aborted")
                 /\ UNCHANGED <<repo, reset_target>>
            ELSE /\ reset_target' = "origin/" \o main_branch
                 /\ res' = [res EXCEPT !["Fetch"] = "ok"]
                 /\ repo' = [repo EXCEPT !.origin = RemoteTip]
                 /\ pc' = "reset"
                 /\ UNCHANGED <<exitCode, ended>>
    /\ UNCHANGED <<env, main_branch, stash_result,
                   branches, idx, deleted_count, failed_deletions>>

\* Mutant of Fetch: the target is origin/<trunk> whether or not the fetch
\* succeeded.
Fetch_AlwaysOrigin ==
    /\ pc = "fetch"
    /\ steps' = Append(steps, "Fetch")
    /\ \E rc \in ReturnCodes :
         /\ cmds' = Append(cmds, Cmd("fetch origin", main_branch, rc, ""))
         /\ reset_target' = "origin/" \o main_branch
         /\ IF run_command(rc, "").none
            THEN /\ res' = [res EXCEPT !["Fetch"] = "fail"]
                 /\ UNCHANGED repo
            ELSE /\ res' = [res EXCEPT !["Fetch"] = "ok"]
                 /\ repo' = [repo EXCEPT !.origin = RemoteTip]
    /\ pc' = "reset"
    /\ UNCHANGED <<env, exitCode, ended, main_branch, stash_result,
                   branches, idx, deleted_count, failed_deletions>>

\* reset_repository, lines 100-107.
Fetch ==
    /\ pc = "fetch"
    /\ steps' = Append(steps, "Fetch")
    /\ \E rc \in ReturnCodes :
         /\ cmds' = Append(cmds, Cmd("fetch origin", main_branch, rc, ""))
         /\ IF run_command(rc, "").none
            THEN /\ reset_target' = "HEAD"
                 /\ res' = [res EXCEPT !["Fetch"] = "fail"]
                 /\ UNCHANGED repo
            ELSE /\ reset_target' = "origin/" \o main_branch
                 /\ res' = [res EXCEPT !["Fetch"] = "ok"]
                 /\ repo' = [repo EXCEPT !.origin = RemoteTip]
    /\ pc' = "reset"
    /\ UNCHANGED <<env, exitCode, ended, main_branch, stash_result,
                   branches, idx, deleted_count, failed_deletions>>

\* The commit a reset target names in repository r.
Resolve(r, target) == IF target = "HEAD" THEN r.tip ELSE r.origin

\* Mutant of HardReset: a failed reset is only a warning.
HardReset_Continue ==
    /\ pc = "reset"
    /\ steps' = Append(steps, "HardReset")
    /\ \E rc \in ReturnCodes :
         /\ cmds' = Append(cmds, Cmd("reset --hard", reset_target, rc, ""))
         /\ IF run_command(rc, "").none
            THEN /\ res' = [res EXCEPT !["HardReset"] = "fail"]
                 /\ UNCHANGED repo
            ELSE /\ repo' = [repo EXCEPT !.dirty = FALSE,
                                         !.tip = Resolve(repo, reset_target)]
                 /\ res' = [res EXCEPT !["HardReset"] = "ok"]
    /\ pc' = "clean"
    /\ UNCHANGED <<env, locals, exitCode, ended>>

\* reset_repository, lines 110-114.
HardReset ==
    /\ pc = "reset"
    /\ steps' = Append(steps, "HardReset")
    /\ \E rc \in ReturnCodes :
         /\ cmds' = Append(cmds, Cmd("reset --hard", reset_target, rc, ""))
         /\ IF run_command(rc, "").none
            THEN /\ res' = [res EXCEPT !["HardReset"] = "fail"]
                 /\ Exit(0, "aborted")
                 /\ UNCHANGED repo
            ELSE /\ repo' = [repo EXCEPT !.dirty = FALSE,
                                         !.tip = Resolve(repo, reset_target)]
                 /\ res' = [res EXCEPT !["HardReset"] = "ok"]
                 /\ pc' = "clean"
                 /\ UNCHANGED <<exitCode, ended>>
    /\ UNCHANGED <<env, locals>>

\* ---------------------------------------------------------------- clean
\* Mutant of Clean: a failed clean aborts the run.
Clean_Abort ==
    /\ pc = "clean"
    /\ steps' = Append(steps, "Clean")
    /\ \E rc \in ReturnCodes :
         /\ cmds' = Append(cmds, Cmd("clean", "-fdx", rc, ""))
         /\ IF run_command(rc, "").none
            THEN /\ res' = [res EXCEPT !["Clean"] = "fail"]
                 /\ Exit(0, "aborted")
                 /\ UNCHANGED repo
            ELSE /\ res' = [res EXCEPT !["Clean"] = "ok"]
                 /\ repo' = [repo EXCEPT !.untracked = FALSE]
                 /\ pc' = "list"
                 /\ UNCHANGED <<exitCode, ended>>
    /\ UNCHANGED <<env, locals>>

\* Mutant of Clean: the step is left out.
Clean_Skip ==
    /\ pc = "clean"
    /\ pc' = "list"
    /\ UNCHANGED <<env, exitCode, ended, locals, repo, cmds, steps, res>>

\* reset_repository, lines 117-121.
Clean ==
    /\ pc = "clean"
    /\ steps' = Append(steps, "Clean")
    /\ \E rc \in ReturnCodes :
         /\ cmds' = Append(cmds, Cmd("clean", "-fdx", rc, ""))
         /\ IF run_command(rc, "").none
            THEN /\ res' = [res EXCEPT !["Clean"] = "fail"]
                 /\ UNCHANGED repo
            ELSE /\ res' = [res EXCEPT !["Clean"] = "ok"]
                 /\ repo' = [repo EXCEPT !.untracked = FALSE]
    /\ pc' = "list"
    /\ UNCHANGED <<env, exitCode, ended, locals>>

\* ---------------------------------------------------------------- prune
InListing(r, b) == b \in r.branches

\* stdout of `git branch`: one line per local branch in name order, the
\* checked-out one marked "* ", the others indented by two spaces.
Listing(r) ==
    LET names == SelectSeq(BranchOrder, LAMBDA b : InListing(r, b))
    IN  [i \in 1..Len(names) |->
            [lead |-> IF names[i] = r.current THEN "* " ELSE "  ",
             text |-> names[i]]]

\* str.strip() on one line: the indentation goes, a marker stays.
StripLine(l) == IF l.lead = "  " THEN [l EXCEPT !.lead = ""] ELSE l

\* result.stdout.strip() on the whole output: only the first line loses its
\* indentation.
StripOutput(lines) ==
    [i \in 1..Len(lines) |-> IF i = 1 THEN StripLine(lines[i]) ELSE lines[i]]

\* Mutant of ParseLine: the selection marker is not removed.
ParseLine_KeepMarker(l) ==
    LET s == StripLine(l)
    IN  s.lead \o s.text

\* b.strip().replace('* ', ''), line 129.
ParseLine(l) ==
    LET s == StripLine(l)
    IN  IF s.lead = "* " THEN s.text ELSE s.lead \o s.text

\* The list comprehension of line 129.
ParseBranches(lines) == [i \in 1..Len(lines) |-> ParseLine(lines[i])]

\* Mutant of ListBranches: whatever was read from the command is parsed,
\* whether or not it failed.
ListBranches_IgnoreFailure ==
    /\ pc = "list"
    /\ steps' = Append(steps, "Prune")
    /\ \E rc \in ReturnCodes :
         LET branches_output == run_command(rc, StripOutput(Listing(repo)))
         IN
         /\ cmds' = Append(cmds, Cmd("branch", "", rc, ""))
         /\ branches' = ParseBranches(branches_output.out)
         /\ idx' = 1
         /\ deleted_count' = 0
         /\ failed_deletions' = <<>>
         /\ pc' = "prune"
         /\ UNCHANGED <<exitCode, ended, res>>
    /\ UNCHANGED <<env, repo, main_branch, reset_target, stash_result>>

\* reset_repository, lines 124-131 and 149-153: list the branches; without a
\* listing the run is complete.
ListBranches ==
    /\ pc = "list"
    /\ steps' = Append(steps, "Prune")
    /\ \E rc \in ReturnCodes :
         LET branches_output == run_command(rc, StripOutput(Listing(repo)))
         IN
         /\ cmds' = Append(cmds, Cmd("branch", "", rc, ""))
         /\ IF ~branches_output.none /\ branches_output.out # <<>>
             THEN /\ branches' = ParseBranches(branches_output.out)
                  /\ idx' = 1
                  /\ deleted_count' = 0
                  /\ failed_deletions' = <<>>
                  /\ pc' = "prune"
                  /\ UNCHANGED <<exitCode, ended, res>>
             ELSE /\ res' = [res EXCEPT !["Prune"] = "fail"]
                  /\ Exit(0, "completed")
                  /\ UNCHANGED <<branches, idx, deleted_count, failed_deletions>>
    /\ UNCHANGED <<env, repo, main_branch, reset_target, stash_result>>

\* `git branch -D/-d <b>` that exits 0 has removed the branch.
DeleteBranch(r, b) == [r EXCEPT !.branches = @ \ {b}]

\* Mutant of DeleteForced: the regular deletion is tried after the forced
\* one whatever the forced one returned.
DeleteForced_AlwaysLenient ==
    /\ pc = "prune"
    /\ idx <= Len(branches)
    /\ LET branch_name == branches[idx] IN
         IF branch_name # main_branch
         THEN \E rc \in ReturnCodes :
                /\ cmds' = Append(cmds, Cmd("branch -D", branch_name, rc, ""))
                /\ IF ~run_command(rc, "").none
                   THEN /\ deleted_count' = deleted_count + 1
                        /\ repo' = DeleteBranch(repo, branch_name)
                   ELSE UNCHANGED <<deleted_count, repo>>
                /\ pc' = "delete"
                /\ UNCHANGED idx
         ELSE /\ idx' = idx + 1
              /\ UNCHANGED <<cmds, deleted_count, repo, pc>>
    /\ UNCHANGED <<env, exitCode, ended, main_branch, reset_target,
                   stash_result, branches, failed_deletions, steps, res>>

\* Mutant of DeleteForced: trunk is not skipped.
DeleteForced_NoSkip ==
    /\ pc = "prune"
    /\ idx <= Len(branches)
    /\ LET branch_name == branches[idx] IN
         \E rc \in ReturnCodes :
            /\ cmds' = Append(cmds, Cmd("branch -D", branch_name, rc, ""))
            /\ IF ~run_command(rc, "").none
               THEN /\ deleted_count' = deleted_count + 1
                    /\ repo' = DeleteBranch(repo, branch_name)
                    /\ idx' = idx + 1
                    /\ pc' = "prune"
               ELSE /\ pc' = "delete"
                    /\ UNCHANGED <<deleted_count, repo, idx>>
    /\ UNCHANGED <<env, exitCode, ended, main_branch, reset_target,
                   stash_result, branches, failed_deletions, steps, res>>

\* One pass of the loop of lines 132-136: trunk is skipped, any other branch
\* gets the forced deletion.
\* Mutant of DeleteForced: the loop skips the branch named "main" instead of
\* the resolved trunk.
DeleteForced_SkipMain ==
    /\ pc = "prune"
    /\ idx <= Len(branches)
    /\ LET branch_name == branches[idx] IN
         IF branch_name # "main"
         THEN \E rc \in ReturnCodes :
                /\ cmds' = Append(cmds, Cmd("branch -D", branch_name, rc, ""))
                /\ IF ~run_command(rc, "").none
                   THEN /\ deleted_count' = deleted_count + 1
                        /\ repo' = DeleteBranch(repo, branch_name)
                        /\ idx' = idx + 1
                        /\ pc' = "prune"
                   ELSE /\ pc' = "delete"
                        /\ UNCHANGED <<deleted_count, repo, idx>>
         ELSE /\ idx' = idx + 1
              /\ UNCHANGED <<cmds, deleted_count, repo, pc>>
    /\ UNCHANGED <<env, exitCode, ended, main_branch, reset_target,
                   stash_result, branches, failed_deletions, steps, res>>

\* Mutant of DeleteForced: the pass over the trunk entry does not move on to
\* the next entry of the listing.
DeleteForced_Stuck ==
    /\ pc = "prune"
    /\ idx <= Len(branches)
    /\ LET branch_name == branches[idx] IN
         IF branch_name # main_branch
         THEN \E rc \in ReturnCodes :
                /\ cmds' = Append(cmds, Cmd("branch -D", branch_name, rc, ""))
                /\ IF ~run_command(rc, "").none
                   THEN /\ deleted_count' = deleted_count + 1
                        /\ repo' = DeleteBranch(repo, branch_name)
                        /\ idx' = idx + 1
                        /\ pc' = "prune"
                   ELSE /\ pc' = "delete"
                        /\ UNCHANGED <<deleted_count, repo, idx>>
         ELSE UNCHANGED <<idx, cmds, deleted_count, repo, pc>>
    /\ UNCHANGED <<env, exitCode, ended, main_branch, reset_target,
                   stash_result, branches, failed_deletions, steps, res>>

DeleteForced ==
    /\ pc = "prune"
    /\ idx <= Len(branches)
    /\ LET branch_name == branches[idx] IN
         IF branch_name # main_branch
         THEN \E rc \in ReturnCodes :
                /\ cmds' = Append(cmds, Cmd("branch -D", branch_name, rc, ""))
                /\ IF ~run_command(rc, "").none
                   THEN /\ deleted_count' = deleted_count + 1
                        /\ repo' = DeleteBranch(repo, branch_name)
                        /\ idx' = idx + 1
                        /\ pc' = "prune"
                   ELSE /\ pc' = "delete"
                        /\ UNCHANGED <<deleted_count, repo, idx>>
         ELSE /\ idx' = idx + 1
              /\ UNCHANGED <<cmds, deleted_count, repo, pc>>
    /\ UNCHANGED <<env, exitCode, ended, main_branch, reset_target,
                   stash_result, branches, failed_deletions, steps, res>>

\* Mutant of DeleteLenient: a branch that cannot be deleted ends the loop.
DeleteLenient_Break ==
    /\ pc = "delete"
    /\ LET branch_name == branches[idx] IN
         \E rc \in ReturnCodes :
              /\ cmds' = Append(cmds, Cmd("branch -d", branch_name, rc, ""))
              /\ IF ~run_command(rc, "").none
                 THEN /\ deleted_count' = deleted_count + 1
                      /\ repo' = DeleteBranch(repo, branch_name)
                      /\ idx' = idx + 1
                      /\ UNCHANGED failed_deletions
                 ELSE /\ failed_deletions' = Append(failed_deletions, branch_name)
                      /\ idx' = Len(branches) + 1
                      /\ UNCHANGED <<deleted_count, repo>>
    /\ pc' = "prune"
    /\ UNCHANGED <<env, exitCode, ended, main_branch, reset_target,
                   stash_result, branches, steps, res>>

\* Lines 137-144: the regular deletion after a failed forced one.
\* Mutant of DeleteLenient: a branch the regular deletion removed is not
\* counted.
DeleteLenient_NoCount ==
    /\ pc = "delete"
    /\ LET branch_name == branches[idx] IN
         \E rc \in ReturnCodes :
              /\ cmds' = Append(cmds, Cmd("branch -d", branch_name, rc, ""))
              /\ IF ~run_command(rc, "").none
                 THEN /\ repo' = DeleteBranch(repo, branch_name)
                      /\ UNCHANGED <<deleted_count, failed_deletions>>
                 ELSE /\ failed_deletions' = Append(failed_deletions, branch_name)
                      /\ UNCHANGED <<deleted_count, repo>>
    /\ idx' = idx + 1
    /\ pc' = "prune"
    /\ UNCHANGED <<env, exitCode, ended, main_branch, reset_target,
                   stash_result, branches, steps, res>>

DeleteLenient ==
    /\ pc = "delete"
    /\ LET branch_name == branches[idx] IN
         \E rc \in ReturnCodes :
              /\ cmds' = Append(cmds, Cmd("branch -d", branch_name, rc, ""))
              /\ IF ~run_command(rc, "").none
                 THEN /\ deleted_count' = deleted_count + 1
                      /\ repo' = DeleteBranch(repo, branch_name)
                      /\ UNCHANGED failed_deletions
                 ELSE /\ failed_deletions' = Append(failed_deletions, branch_name)
                      /\ UNCHANGED <<deleted_count, repo>>
    /\ idx' = idx + 1
    /\ pc' = "prune"
    /\ UNCHANGED <<env, exitCode, ended, main_branch, reset_target,
                   stash_result, branches, steps, res>>

\* Lines 146-153: the loop is over; report and return.
PruneDone ==
    /\ pc = "prune"
    /\ idx > Len(branches)
    /\ res' = [res EXCEPT !["Prune"] =
                   IF failed_deletions # <<>> THEN "fail" ELSE "ok"]
    /\ Exit(0, "completed")
    /\ UNCHANGED <<env, repo, locals, cmds, steps>>

\* The trunk of repository r as get_main_branch_name resolves it.
TrunkOf(r) ==
    IF "main" \in r.branches THEN "main"
    ELSE IF "master" \in r.branches THEN "master" ELSE None

\* r is a clean checkout of its trunk with no divergence from the remote.
CleanTrunkCheckout(r) ==
    /\ TrunkOf(r) # None /\ r.current = TrunkOf(r)
    /\ ~r.dirty /\ ~r.untracked
    /\ r.tip = RemoteTip /\ r.origin = RemoteTip

\* The script is invoked again on the same path once the previous invocation
\* is over: every variable of the script starts afresh, only the repository
\* on disk is carried over.  Second invocations are followed for the runs
\* that started on a clean trunk checkout.
Rerun ==
    /\ pc = "exit"
    /\ runNo < MaxRuns
    /\ gitIsFile /\ pathKind = "repo"
    /\ CleanTrunkCheckout(repo0)
    /\ runNo' = runNo + 1
    /\ prev' = [ended |-> ended, repo |-> repo, deleted_count |-> deleted_count,
                failed |-> {cmds[i].op : i \in {j \in DOMAIN cmds : cmds[j].rc # 0}}]
    /\ repo0' = repo
    /\ pc' = "main"
    /\ exitCode' = <<>>
    /\ ended' = "running"
    /\ main_branch' = None
    /\ reset_target' = None
    /\ stash_result' = None
    /\ branches' = <<>>
    /\ idx' = 0
    /\ deleted_count' = 0
    /\ failed_deletions' = <<>>
    /\ cmds' = <<>>
    /\ steps' = <<>>
    /\ res' = [s \in StepNames |-> "none"]
    /\ UNCHANGED <<gitIsFile, pathKind, repo, tasks, stats, api>>

Next ==
    \/ Main
    \/ CheckGitDir
    \/ ShowRefMain
    \/ ShowRefMaster
    \/ StashPush
    \/ StashDrop
    \/ Checkout
    \/ VerifyCheckout
    \/ Fetch
    \/ HardReset
    \/ Clean
    \/ ListBranches
    \/ DeleteForced
    \/ DeleteLenient
    \/ PruneDone
    \/ Rerun

Spec == Init /\ [][Next]_vars

\* Every step is taken as soon as the previous command has returned: the
\* script blocks on each subprocess and has no other wait.
FairSpec == Spec /\ WF_vars(Next)

\* ----------------------------------------------------------- task_utils
\* A task is a dict; "completed" and "category" may be missing from it.
Categories == {"work", "personal", "uncategorized"}

Tasks ==
    {[title |-> "t", completed |-> c, category |-> k] :
        c \in BOOLEAN, k \in Categories}
      \cup {[title |-> "t", completed |-> c] : c \in BOOLEAN}
      \cup {[title |-> "t", category |-> k] : k \in Categories}
      \cup {[title |-> "t"]}

RECURSIVE TaskListsOf(_)
TaskListsOf(n) ==
    IF n = 0 THEN {<<>>}
    ELSE LET shorter == TaskListsOf(n - 1)
         IN  shorter \cup {Append(l, t) : l \in {x \in shorter : Len(x) = n - 1},
                                          t \in Tasks}

TaskLists == TaskListsOf(MaxTasks)

\* dict.get(key, default)
Get(d, key, default) == IF key \in DOMAIN d THEN d[key] ELSE default

\* {}
EmptyDict == [k \in {} |-> 0]

\* d[key] = value
Put(d, key, value) ==
    [k \in DOMAIN d \cup {key} |-> IF k = key THEN value ELSE d[k]]

\* Mutant of CountCategories: the count is set, not added to.
RECURSIVE CountCategories_Overwrite(_, _)
CountCategories_Overwrite(ts, categories) ==
    IF ts = <<>> THEN categories
    ELSE LET category == Get(Head(ts), "category", "uncategorized")
         IN  CountCategories_Overwrite(Tail(ts), Put(categories, category, 1))

\* The loop of lines 91-94, over the tasks still to visit.
RECURSIVE CountCategories(_, _)
CountCategories(ts, categories) ==
    IF ts = <<>> THEN categories
    ELSE LET category == Get(Head(ts), "category", "uncategorized")
         IN  CountCategories(Tail(ts),
                 Put(categories, category, Get(categories, category, 0) + 1))

\* (count / total) * 100, kept exact as numerator and denominator.
Percentage(count, total) == <<count * 100, total>>

\* calculate_task_statistics, lines 76-110.
calculate_task_statistics(ts) ==
    IF ts = <<>>
    THEN [total |-> 0, completed |-> 0, pending |-> 0,
          categories |-> EmptyDict, completion_rate |-> <<0, 1>>]
    ELSE LET total == Len(ts)
             completed_tasks ==
                 SelectSeq(ts, LAMBDA t : Get(t, "completed", FALSE))
             completed == Len(completed_tasks)
             categories == CountCategories(ts, EmptyDict)
             category_stats ==
                 [cat \in DOMAIN categories |->
                     [count |-> categories[cat],
                      percentage |-> Percentage(categories[cat], total)]]
         IN  [total |-> total, completed |-> completed,
              pending |-> total - completed,
              completion_rate |-> Percentage(completed, total),
              categories |-> category_stats]

\* What the reset script's variables hold while the task helpers run.
ResetIdle ==
    /\ gitIsFile = TRUE
    /\ pathKind = "repo"
    /\ repo = NoRepo
    /\ repo0 = NoRepo
    /\ exitCode = <<>>
    /\ ended = "running"
    /\ main_branch = None
    /\ reset_target = None
    /\ stash_result = None
    /\ branches = <<>>
    /\ idx = 0
    /\ deleted_count = 0
    /\ failed_deletions = <<>>
    /\ cmds = <<>>
    /\ steps = <<>>
    /\ res = [s \in StepNames |-> "none"]
    /\ runNo = 1
    /\ prev = NoPrev

\* A caller about to hand a task list to calculate_task_statistics.
StatsInit ==
    /\ ResetIdle
    /\ pc = "calculate_task_statistics"
    /\ tasks \in TaskLists
    /\ stats = None
    /\ ApiIdle

\* The call of calculate_task_statistics.
CalcStats ==
    /\ pc = "calculate_task_statistics"
    /\ stats' = calculate_task_statistics(tasks)
    /\ pc' = "returned"
    /\ UNCHANGED <<gitIsFile, pathKind, repo, repo0, exitCode, ended, locals,
                   cmds, steps, res, runNo, prev, tasks, api>>

StatsNext == CalcStats

StatsSpec == StatsInit /\ [][StatsNext]_vars

\* -------------------------------------------------------------- app.py
Titles == {"t1", "t2"}

\* The JSON objects of the requests: any of the keys a handler reads.
JsonObjects ==
    {[k \in S |-> CASE k = "title" -> t
                    [] k = "category" -> "work"
                    [] k = "completed" -> c] :
        S \in SUBSET {"title", "category", "completed"},
        t \in Titles, c \in BOOLEAN}

JsonArrays == {{}, {"title"}}

Bodies ==
    {JsonNull}
      \cup {Json("object", {}, o) : o \in JsonObjects}
      \cup {Json("array", a, [k \in {} |-> 0]) : a \in JsonArrays}

\* Python's truth value of the parsed body: None, {} and [] are false.
Truthy(data) ==
    \/ data.kind = "object" /\ DOMAIN data.fields # {}
    \/ data.kind = "array" /\ data.items # {}

\* `key in data`: a key of an object, an element of an array.
Contains(data, key) ==
    IF data.kind = "object" THEN key \in DOMAIN data.fields
    ELSE key \in data.items

\* The index of the task with this id, 0 when the loop finds none.
Find(task_id) ==
    IF \E i \in DOMAIN TASKS : TASKS[i].id = task_id
    THEN CHOOSE i \in DOMAIN TASKS :
            /\ TASKS[i].id = task_id
            /\ \A j \in DOMAIN TASKS : TASKS[j].id = task_id => i <= j
    ELSE 0

\* del TASKS[i]
Del(seq, i) == [j \in 1..(Len(seq) - 1) |-> IF j < i THEN seq[j] ELSE seq[j + 1]]

Served(op, task_id, data, status) ==
    request' = [op |-> op, task_id |-> task_id, data |-> data, status |-> status]

\* createTask, lines 55-75.  The counter is advanced before the new task is
\* built; data["title"] on a body that is not an object raises, and the
\* request ends with status 500 there.
createTask ==
    /\ pc = "serving"
    /\ task_id_counter < MaxCreates
    /\ \E data \in Bodies :
         IF ~Truthy(data) \/ ~Contains(data, "title")
         THEN /\ Served("createTask", 0, data, 400)
              /\ UNCHANGED <<TASKS, task_id_counter>>
         ELSE /\ task_id_counter' = task_id_counter + 1
              /\ IF data.kind = "object"
                 THEN /\ TASKS' = Append(TASKS,
                             [id |-> task_id_counter',
                              title |-> data.fields["title"],
                              category |-> Get(data.fields, "category",
                                               "uncategorized"),
                              completed |-> FALSE])
                      /\ Served("createTask", 0, data, 201)
                 ELSE /\ Served("createTask", 0, data, 500)
                      /\ UNCHANGED TASKS
    /\ UNCHANGED <<gitIsFile, pathKind, repo, repo0, pc, exitCode, ended,
                   locals, cmds, steps, res, runNo, prev, tasks, stats, removed>>

\* update_task, lines 79-92.  data.get on a body that is not an object
\* raises before anything is assigned.
update_task ==
    /\ pc = "serving"
    /\ \E task_id \in 1..MaxCreates, data \in Bodies :
         LET i == Find(task_id) IN
         IF i = 0
         THEN /\ Served("update_task", task_id, data, 404)
              /\ UNCHANGED TASKS
         ELSE IF data.kind # "object"
         THEN /\ Served("update_task", task_id, data, 500)
              /\ UNCHANGED TASKS
         ELSE /\ TASKS' = [TASKS EXCEPT ![i] =
                     [id |-> @.id,
                      title |-> Get(data.fields, "title", @.title),
                      category |-> Get(data.fields, "category", @.category),
                      completed |-> Get(data.fields, "completed", @.completed)]]
              /\ Served("update_task", task_id, data, 200)
    /\ UNCHANGED <<gitIsFile, pathKind, repo, repo0, pc, exitCode, ended,
                   locals, cmds, steps, res, runNo, prev, tasks, stats,
                   task_id_counter, removed>>

\* delete_task, lines 96-103.
delete_task ==
    /\ pc = "serving"
    /\ \E task_id \in 1..MaxCreates :
         LET i == Find(task_id) IN
         IF i = 0
         THEN /\ Served("delete_task", task_id, JsonNull, 404)
              /\ UNCHANGED <<TASKS, removed>>
         ELSE /\ TASKS' = Del(TASKS, i)
              /\ removed' = removed \cup {task_id}
              /\ Served("delete_task", task_id, JsonNull, 200)
    /\ UNCHANGED <<gitIsFile, pathKind, repo, repo0, pc, exitCode, ended,
                   locals, cmds, steps, res, runNo, prev, tasks, stats,
                   task_id_counter>>

\* CompleteTask, lines 107-114.
CompleteTask ==
    /\ pc = "serving"
    /\ \E task_id \in 1..MaxCreates :
         LET i == Find(task_id) IN
         IF i = 0
         THEN /\ Served("CompleteTask", task_id, JsonNull, 404)
              /\ UNCHANGED TASKS
         ELSE /\ TASKS' = [TASKS EXCEPT ![i].completed = TRUE]
              /\ Served("CompleteTask", task_id, JsonNull, 200)
    /\ UNCHANGED <<gitIsFile, pathKind, repo, repo0, pc, exitCode, ended,
                   locals, cmds, steps, res, runNo, prev, tasks, stats,
                   task_id_counter, removed>>

\* The server waiting for requests on a store it did not load from a file.
ApiInit ==
    /\ ResetIdle
    /\ pc = "serving"
    /\ tasks = <<>>
    /\ stats = None
    /\ ApiIdle

\* Requests are served one after the other.
ApiNext ==
    \/ createTask
    \/ update_task
    \/ delete_task
    \/ CompleteTask

ApiSpec == ApiInit /\ [][ApiNext]_vars

\* ------------------------------------------------------------ properties
Ops == {cmds[i].op : i \in DOMAIN cmds}

Issued(op) == op \in Ops

\* Some command `op` of the run returned a failure.
Failed(op) == \E i \in DOMAIN cmds : cmds[i].op = op /\ cmds[i].rc # 0

\* Some command `op` of the run returned success.
Succeeded(op) == \E i \in DOMAIN cmds : cmds[i].op = op /\ cmds[i].rc = 0

Count(op) == Cardinality({i \in DOMAIN cmds : cmds[i].op = op})

\* The configuration is sound: git is installed and the path is a repository.
ValidRun == gitIsFile /\ pathKind = "repo"

PruneOps == {"branch", "branch -D", "branch -d"}

\* C1: in a repository with neither main nor master the run issues only the
\* two show-ref queries and, once over, has ended aborted.
NoTrunk ==
    ValidRun /\ "main" \notin repo0.branches /\ "master" \notin repo0.branches

C1_NoTrunkAborts ==
    NoTrunk =>
      /\ \A i \in DOMAIN cmds : cmds[i].op = "show-ref"
      /\ Len(cmds) <= 2
      /\ repo = repo0
      /\ pc = "exit" =>
           /\ ended = "aborted"
           /\ [i \in DOMAIN cmds |-> cmds[i].arg]
                = <<"refs/heads/main", "refs/heads/master">>

C1_Witness ==
    NoTrunk /\ pc = "exit" /\ repo0.branches # {} /\ repo0.dirty
      /\ repo0.untracked

\* C2: once the hard reset has failed, no clean, branch listing or branch
\* deletion is issued and the run has ended aborted.
C2_ResetFailureStops ==
    Failed("reset --hard") =>
      /\ pc = "exit" /\ ended = "aborted"
      /\ ~Issued("clean")
      /\ Ops \cap PruneOps = {}
      /\ cmds[Len(cmds)].op = "reset --hard"

C2_Witness ==
    Failed("reset --hard") /\ repo.untracked
      /\ Cardinality(repo.branches) > 1

\* C3: a failed fetch is followed by a hard reset against HEAD, and when
\* that reset succeeds the run ends completed, never aborted.
ResetIssuedOn(target) ==
    \E i \in DOMAIN cmds : cmds[i].op = "reset --hard" /\ cmds[i].arg = target

C3_FetchFailureProceeds ==
    /\ Failed("fetch origin") ~> ResetIssuedOn("HEAD")
    /\ (Failed("fetch origin") /\ Succeeded("reset --hard"))
          ~> (pc = "exit" /\ ended = "completed")
    /\ [](Failed("fetch origin") =>
            \A i \in DOMAIN cmds :
               cmds[i].op = "reset --hard" => cmds[i].arg = "HEAD")

C3_Witness ==
    /\ Failed("fetch origin") /\ ResetIssuedOn("HEAD")
    /\ pc = "exit" /\ ended = "completed"

\* C4: the process status is 0 exactly when the run completed.
C4_ExitStatus ==
    pc = "exit" => (exitCode = <<0>> <=> ended = "completed")

\* C5: on a configuration error no git command is issued and the
\* repository is as it was; the run ends on that error after Validate alone.
ConfigError == ~gitIsFile \/ pathKind # "repo"

C5_ConfigErrorFirst ==
    ConfigError =>
      /\ cmds = <<>>
      /\ repo = repo0
      /\ steps \in {<<>>, <<"Validate">>}
      /\ pc = "exit" => ended \in {"config", "notrepo"}

C5_Witness ==
    /\ pc = "exit" /\ ended = "notrepo" /\ pathKind = "dir" /\ gitIsFile

\* C6: the steps entered form a prefix of the fixed order, the commands are
\* issued in step order, and checkout, verification, fetch, hard reset and
\* clean are each issued at most once.
IsPrefix(s, t) == Len(s) <= Len(t) /\ \A i \in 1..Len(s) : s[i] = t[i]

StepIndex(name) == CHOOSE i \in 1..Len(StepOrder) : StepOrder[i] = name

StepOf(op) ==
    CASE op = "show-ref" -> "ResolveTrunk"
      [] op \in {"stash push", "stash drop"} -> "Stash"
      [] op = "checkout" -> "Checkout"
      [] op = "branch --show-current" -> "VerifyCheckout"
      [] op = "fetch origin" -> "Fetch"
      [] op = "reset --hard" -> "HardReset"
      [] op = "clean" -> "Clean"
      [] op \in PruneOps -> "Prune"

OnceOps ==
    {"checkout", "branch --show-current", "fetch origin", "reset --hard",
     "clean"}

C6_FixedOrder ==
    /\ IsPrefix(steps, StepOrder)
    /\ \A op \in OnceOps : Count(op) <= 1
    /\ \A i, j \in DOMAIN cmds :
         i < j => StepIndex(StepOf(cmds[i].op)) <= StepIndex(StepOf(cmds[j].op))
    /\ \A i \in DOMAIN cmds :
         StepIndex(StepOf(cmds[i].op)) <= Len(steps)
    /\ Len(cmds) > 0 => StepOf(cmds[Len(cmds)].op) = steps[Len(steps)]

C6_Witness ==
    /\ pc = "exit" /\ steps = StepOrder
    /\ Issued("stash drop") /\ Issued("branch -d")

\* C7: a completed run has passed validation, resolved trunk, checked it
\* out, verified the checkout and hard-reset; a run that got past the hard
\* reset is never aborted, whatever clean and prune return.
VerifiedOn(b) ==
    \E i \in DOMAIN cmds :
       cmds[i].op = "branch --show-current" /\ cmds[i].rc = 0 /\ cmds[i].out = b

C7_CompletedOnlyAfterReset ==
    /\ ended = "completed" =>
         /\ ValidRun
         /\ main_branch \in {"main", "master"} /\ main_branch \in repo0.branches
         /\ Succeeded("checkout") /\ ~Failed("checkout")
         /\ VerifiedOn(main_branch) /\ ~Failed("branch --show-current")
         /\ Succeeded("reset --hard") /\ ~Failed("reset --hard")
    /\ ended = "aborted" => ~Issued("clean") /\ Ops \cap PruneOps = {}
    /\ (Issued("clean") \/ Ops \cap PruneOps # {}) => ended # "aborted"

C7_Witness ==
    /\ ended = "completed" /\ Failed("clean")
    /\ Failed("branch -d") /\ Failed("fetch origin")

\* C8: after a failed checkout, or a current-branch query that failed or
\* named another branch than trunk, the run has ended aborted without any
\* fetch, hard reset, clean, branch listing or branch deletion.
VerifyMismatch ==
    \E i \in DOMAIN cmds :
       /\ cmds[i].op = "branch --show-current"
       /\ cmds[i].rc # 0 \/ cmds[i].out # main_branch

C8_CheckoutFailureStops ==
    (Failed("checkout") \/ VerifyMismatch) =>
      /\ pc = "exit" /\ ended = "aborted"
      /\ Ops \cap ({"fetch origin", "reset --hard", "clean"} \cup PruneOps) = {}

C8_Witness ==
    /\ Succeeded("checkout")
    /\ \E i \in DOMAIN cmds :
         /\ cmds[i].op = "branch --show-current"
         /\ cmds[i].rc = 0 /\ cmds[i].out # main_branch
    /\ pc = "exit"

\* C9: whatever the stash push and the stash drop return, the checkout of
\* trunk is the next command after them, and it is issued.
C9_StashNeverGates ==
    /\ Issued("stash push") ~> Issued("checkout")
    /\ [](\A i \in DOMAIN cmds :
            (i < Len(cmds) /\ StepOf(cmds[i].op) = "Stash") =>
               cmds[i + 1].op \in
                 (IF cmds[i].op = "stash push"
                       /\ cmds[i].rc = 0 /\ ~HasNoLocalChanges(cmds[i].out)
                  THEN {"stash drop"} ELSE {"checkout"}))

C9_Witness ==
    \E i \in DOMAIN cmds :
       /\ i < Len(cmds)
       /\ cmds[i].op = "stash drop" /\ cmds[i].rc # 0
       /\ cmds[i + 1].op = "checkout"

\* C10: after a successful hard reset the run ends completed; a failed
\* clean is followed by the branch listing.
C10_CompletesAfterReset ==
    /\ Succeeded("reset --hard") ~> (pc = "exit" /\ ended = "completed")
    /\ Failed("clean") ~> Issued("branch")
    /\ [](Succeeded("reset --hard") => ended # "aborted")

C10_Witness ==
    /\ pc = "exit" /\ ended = "completed"
    /\ Failed("clean") /\ Issued("branch")
    /\ failed_deletions # <<>>

\* C11: with a local main the resolver answers "main" and never queries
\* master; it answers "master" only when main is missing and master exists.
ShowRefQueries == [i \in DOMAIN cmds |-> cmds[i].arg]

Resolved == pc \notin {"main", "reset_repository", "show_ref_main", "show_ref_master"}

C11_MainPreferred ==
    /\ (ValidRun /\ "main" \in repo0.branches) =>
         /\ \A i \in DOMAIN cmds :
               cmds[i].op = "show-ref" => cmds[i].arg = "refs/heads/main"
         /\ Resolved => main_branch = "main"
    /\ main_branch = "master" =>
         "main" \notin repo0.branches /\ "master" \in repo0.branches
    /\ main_branch = "main" => "main" \in repo0.branches

C11_Witness ==
    /\ main_branch = "main" /\ "master" \in repo0.branches
    /\ repo0.current = "master" /\ pc = "exit"

\* C12 as stated: after a completed run in which every deletion command
\* succeeded, only trunk is left and the deleted count is the number of
\* other branches the run found.
NoDeletionFailed == ~Failed("branch -D") /\ ~Failed("branch -d")

OnlyTrunkLeft ==
    /\ repo.branches = {main_branch}
    /\ deleted_count = Cardinality(repo0.branches \ {main_branch})

C12_AsStated ==
    (pc = "exit" /\ ended = "completed" /\ NoDeletionFailed) => OnlyTrunkLeft

\* C12, amended: the same when the branch listing succeeded as well.
C12_PrunedToTrunk ==
    (pc = "exit" /\ ended = "completed" /\ Succeeded("branch")
       /\ NoDeletionFailed) => OnlyTrunkLeft

C12_Witness ==
    /\ pc = "exit" /\ ended = "completed" /\ Succeeded("branch")
    /\ NoDeletionFailed
    /\ Cardinality(repo0.branches) > 2 /\ deleted_count = 2
    /\ repo.branches = {"main"}

\* C13: a run on a repository with modified tracked files and untracked
\* files, in which every command succeeds, leaves the working tree equal to
\* the reset target and free of untracked and ignored files.
EveryCommandSucceeded == \A i \in DOMAIN cmds : cmds[i].rc = 0

C13_TreeMatchesTarget ==
    (pc = "exit" /\ ended = "completed" /\ EveryCommandSucceeded
       /\ repo0.dirty /\ repo0.untracked) =>
      /\ ~repo.dirty
      /\ ~repo.untracked
      /\ ResetIssuedOn(reset_target)
      /\ repo.tip = Resolve(repo, reset_target)
      /\ repo.current = main_branch

C13_Witness ==
    /\ pc = "exit" /\ ended = "completed" /\ EveryCommandSucceeded
    /\ repo0.dirty /\ repo0.untracked /\ repo0.tip # RemoteTip
    /\ Issued("stash drop") /\ repo.tip = RemoteTip

\* C14 as stated: invoked twice in succession on a clean trunk checkout
\* without divergence, the script completes both times, the second run
\* deletes nothing when the first left only trunk, and the second run leaves
\* the repository as the first left it.
SecondRunOver == runNo > 1 /\ pc = "exit"

DeletesNothing ==
    deleted_count = 0 /\ ~Issued("branch -D") /\ ~Issued("branch -d")

FatalOps == {"checkout", "branch --show-current", "reset --hard"}

NoFatalFailure ==
    /\ prev.failed \cap FatalOps = {}
    /\ \A op \in FatalOps : ~Failed(op)

ForcedOn(b) ==
    \E i \in DOMAIN cmds : cmds[i].op = "branch -D" /\ cmds[i].arg = b

C15_EveryBranchAttempted ==
    /\ \A k \in 1..Len(branches) :
         (k < idx /\ branches[k] # main_branch) => ForcedOn(branches[k])
    /\ (pc = "exit" /\ Succeeded("branch")) =>
         /\ ended = "completed"
         /\ \A b \in repo0.branches \ {main_branch} : ForcedOn(b)
    /\ Failed("branch -d") => ended # "aborted"

C15_Witness ==
    /\ pc = "exit" /\ ended = "completed"
    /\ \E i, j \in DOMAIN cmds :
         /\ i < j
         /\ cmds[i].op = "branch -d" /\ cmds[i].rc # 0
         /\ cmds[j].op = "branch -D" /\ cmds[j].arg # cmds[i].arg

\* C16: when the branch listing fails no branch is deleted and the run is
\* over, completed.
C16_NoListingNoDeletion ==
    Failed("branch") =>
      /\ pc = "exit" /\ ended = "completed"
      /\ ~Issued("branch -D") /\ ~Issued("branch -d")
      /\ repo.branches = repo0.branches
      /\ cmds[Len(cmds)].op = "branch"

C16_Witness ==
    /\ Failed("branch") /\ pc = "exit"
    /\ Cardinality(repo.branches) > 2

\* C17: calculate_task_statistics reports the number of tasks, the number
\* of completed ones, their difference as pending, and per distinct
\* category (a missing one counting as "uncategorized") the number of its
\* tasks, these adding up to the total; all of it zero and empty for no tasks.
CategoryOf(t) ==
    IF "category" \in DOMAIN t THEN t.category ELSE "uncategorized"

IsCompleted(t) == "completed" \in DOMAIN t /\ t.completed

RECURSIVE SumCounts(_, _)
SumCounts(d, keys) ==
    IF keys = {} THEN 0
    ELSE LET k == CHOOSE x \in keys : TRUE
         IN  d[k].count + SumCounts(d, keys \ {k})

C17_Statistics ==
    pc = "returned" =>
      /\ stats.total = Len(tasks)
      /\ stats.completed
           = Cardinality({i \in DOMAIN tasks : IsCompleted(tasks[i])})
      /\ stats.pending + stats.completed = stats.total
      /\ DOMAIN stats.categories = {CategoryOf(tasks[i]) : i \in DOMAIN tasks}
      /\ \A c \in DOMAIN stats.categories :
            stats.categories[c].count
              = Cardinality({i \in DOMAIN tasks : CategoryOf(tasks[i]) = c})
      /\ SumCounts(stats.categories, DOMAIN stats.categories) = stats.total
      /\ tasks = <<>> =>
           /\ stats.total = 0 /\ stats.completed = 0 /\ stats.pending = 0
           /\ stats.categories = EmptyDict

C17_Witness ==
    /\ pc = "returned" /\ Len(tasks) = MaxTasks
    /\ \E i, j \in DOMAIN tasks :
         /\ "category" \notin DOMAIN tasks[i]
         /\ "category" \in DOMAIN tasks[j] /\ tasks[j].category = "uncategorized"
    /\ \E i \in DOMAIN tasks : "completed" \notin DOMAIN tasks[i]
    /\ stats.completed = 1
    /\ stats.categories["uncategorized"].count > 1

\* C18: the stash drop is issued at most once, only right after a stash push
\* that exited 0 with something saved, and then always, before the checkout;
\* never after a push that failed or found no local changes.
PushSaved(c) == c.op = "stash push" /\ c.rc = 0 /\ c.out # StashNothing

C18_DropExactlyAfterSave ==
    /\ Count("stash drop") <= 1
    /\ Count("stash push") <= 1
    /\ \A i \in DOMAIN cmds :
         cmds[i].op = "stash drop" =>
           /\ i > 1
           /\ PushSaved(cmds[i - 1])
           /\ i < Len(cmds) => cmds[i + 1].op = "checkout"
    /\ \A i \in DOMAIN cmds :
         cmds[i].op = "stash push" =>
           IF PushSaved(cmds[i])
           THEN /\ i < Len(cmds) => cmds[i + 1].op = "stash drop"
                /\ i = Len(cmds) => pc = "stash_drop"
           ELSE /\ ~Issued("stash drop")
                /\ i = Len(cmds) => pc = "checkout"

C18_Witness ==
    /\ pc = "exit" /\ Issued("checkout")
    /\ \E i \in DOMAIN cmds : PushSaved(cmds[i])
    /\ Succeeded("stash drop")
    /\ repo0.dirty /\ ~repo.dirty /\ repo.stashes = 0

\* C19: each non-trunk branch gets the forced deletion first and once; the
\* regular deletion follows exactly when that forced deletion failed, on the
\* same branch and once.
DeletionsOf(op, b) ==
    {i \in DOMAIN cmds : cmds[i].op = op /\ cmds[i].arg = b}

C19_ForcedThenLenient ==
    /\ \A i \in DOMAIN cmds :
         cmds[i].op = "branch -d" =>
           /\ i > 1
           /\ cmds[i - 1].op = "branch -D"
           /\ cmds[i - 1].arg = cmds[i].arg
           /\ cmds[i - 1].rc # 0
    /\ \A i \in DOMAIN cmds :
         cmds[i].op = "branch -D" =>
           IF cmds[i].rc # 0
           THEN /\ i < Len(cmds) =>
                     cmds[i + 1].op = "branch -d" /\ cmds[i + 1].arg = cmds[i].arg
                /\ i = Len(cmds) => pc = "delete"
           ELSE DeletionsOf("branch -d", cmds[i].arg) = {}
    /\ \A b \in BranchNames :
         /\ Cardinality(DeletionsOf("branch -D", b)) <= 1
         /\ Cardinality(DeletionsOf("branch -d", b))
              <= Cardinality(DeletionsOf("branch -D", b))
    /\ \A k \in 1..Len(branches) :
         (k < idx /\ branches[k] # main_branch) =>
            DeletionsOf("branch -D", branches[k]) # {}

C19_Witness ==
    /\ pc = "exit"
    /\ \E b, c \in BranchNames :
         /\ Cardinality(DeletionsOf("branch -D", b)) = 1
         /\ Cardinality(DeletionsOf("branch -d", b)) = 1
         /\ Cardinality(DeletionsOf("branch -D", c)) = 1
         /\ DeletionsOf("branch -d", c) = {}

\* C20: a hard reset is issued on origin/<trunk> exactly when this run's
\* fetch succeeded and on HEAD exactly when it failed, never on anything
\* else, <trunk> being the branch resolved at the start of the run.
C20_ResetTargetFollowsFetch ==
    /\ \A i \in DOMAIN cmds :
         cmds[i].op = "reset --hard" =>
           /\ cmds[i].arg \in {"HEAD", "origin/" \o TrunkOf(repo0)}
           /\ cmds[i].arg = "origin/" \o TrunkOf(repo0) <=> Succeeded("fetch origin")
           /\ cmds[i].arg = "HEAD" <=> Failed("fetch origin")
    /\ \A i \in DOMAIN cmds :
         cmds[i].op \in {"checkout", "fetch origin"} =>
            cmds[i].arg = TrunkOf(repo0)
    /\ main_branch \in {None, TrunkOf(repo0)}

C20_Witness ==
    /\ pc = "exit" /\ ResetIssuedOn("origin/master")
    /\ Succeeded("fetch origin") /\ repo0.current # "master"

\* C21: no forced or regular branch deletion is ever issued on the resolved
\* trunk, which in every listing the loop reads is the line carrying the
\* selection marker; every deletion is issued on another branch of the
\* listing, and trunk stays among the local branches.
Deletions ==
    {i \in DOMAIN cmds : cmds[i].op \in {"branch -D", "branch -d"}}

C21_TrunkNeverDeleted ==
    /\ \A i \in Deletions :
         /\ cmds[i].arg # TrunkOf(repo0)
         /\ cmds[i].arg # main_branch
         /\ cmds[i].arg \in repo0.branches
    /\ Issued("branch") => repo.current = TrunkOf(repo0)
    /\ Succeeded("branch") =>
         /\ \E k \in DOMAIN branches : branches[k] = TrunkOf(repo0)
         /\ TrunkOf(repo0) \in repo.branches

C21_Witness ==
    /\ pc = "exit" /\ ended = "completed"
    /\ TrunkOf(repo0) = "master" /\ repo.current = "master"
    /\ Listing(repo0)[Len(Listing(repo0))] = [lead |-> "* ", text |-> "master"]
    /\ \E i \in Deletions : cmds[i].rc = 0
    /\ repo.branches = {"master"}


\* C22: once the listing was obtained, the deleted count plus the length of
\* the failed list equals the number of non-trunk branches the loop has
\* passed, at the end all the non-trunk branches listed; the count is the
\* number of branches whose forced or regular deletion succeeded, and the
\* failed list holds, once each, exactly the branches whose two deletions
\* both failed.
Passed == {k \in DOMAIN branches : k < idx /\ branches[k] # main_branch}

DeletedBranches ==
    {b \in BranchNames : \E i \in Deletions : cmds[i].arg = b /\ cmds[i].rc = 0}

BothFailed ==
    {b \in BranchNames :
       /\ \E i \in DOMAIN cmds :
            cmds[i].op = "branch -D" /\ cmds[i].arg = b /\ cmds[i].rc # 0
       /\ \E i \in DOMAIN cmds :
            cmds[i].op = "branch -d" /\ cmds[i].arg = b /\ cmds[i].rc # 0}

C22_EveryBranchAccounted ==
    Succeeded("branch") =>
      /\ deleted_count + Len(failed_deletions) = Cardinality(Passed)
      /\ deleted_count = Cardinality(DeletedBranches)
      /\ {failed_deletions[k] : k \in DOMAIN failed_deletions} = BothFailed
      /\ Len(failed_deletions) = Cardinality(BothFailed)
      /\ DeletedBranches \cap BothFailed = {}
      /\ pc = "exit" =>
           /\ Passed = {k \in DOMAIN branches : branches[k] # main_branch}
           /\ {branches[k] : k \in Passed} = repo0.branches \ {main_branch}
           /\ Cardinality(Passed) = Cardinality(repo0.branches) - 1

C22_Witness ==
    /\ pc = "exit" /\ ended = "completed"
    /\ deleted_count = 1 /\ Len(failed_deletions) = 1
    /\ \E i \in DOMAIN cmds :
         cmds[i].op = "branch -d" /\ cmds[i].rc = 0


\* C23: with every command returning, a run that has started reaches its
\* exit, and is then in exactly one of the terminal states: configuration
\* error, aborted or completed, which it does not leave.  On the way no step
\* is entered twice, and the prune loop only moves forward through the
\* listing, with at most one forced and one regular deletion per entry.
TerminalStates == {"config", "notrepo", "aborted", "completed"}

NoStepTwice ==
    \A i, j \in DOMAIN steps : steps[i] = steps[j] => i = j

EachBranchOnce ==
    /\ \A i, j \in DOMAIN branches : branches[i] = branches[j] => i = j
    /\ idx <= Len(branches) + 1
    /\ \A i, j \in Deletions :
         (cmds[i].op = cmds[j].op /\ cmds[i].arg = cmds[j].arg) => i = j
    /\ \A i, j \in Deletions :
         (i < j /\ cmds[i].arg # cmds[j].arg) =>
            \E k, l \in DOMAIN branches :
               k < l /\ branches[k] = cmds[i].arg /\ branches[l] = cmds[j].arg

C23_Terminates ==
    /\ (pc # "exit") ~> (pc = "exit")
    /\ [](/\ pc = "exit" <=> ended \in TerminalStates
          /\ pc # "exit" <=> ended = "running"
          /\ pc = "exit" <=> exitCode # <<>>
          /\ NoStepTwice
          /\ EachBranchOnce)
    /\ [][/\ pc = "exit" => runNo' = runNo + 1
          /\ pc \in {"prune", "delete"} => idx' >= idx]_vars

C23_Witness ==
    /\ pc = "exit" /\ ended = "completed" /\ steps = StepOrder
    /\ Len(branches) = 3 /\ Len(failed_deletions) = 1 /\ deleted_count = 1
    /\ Failed("fetch origin") /\ Failed("clean")


\* C24: in the task API, from an empty store and whatever requests were
\* served, the stored tasks have pairwise distinct ids, none above the id
\* counter and none that a deleted task had; and a create request whose
\* body has no title changes neither the task list nor the counter.
DistinctIds ==
    \A i, j \in DOMAIN TASKS : TASKS[i].id = TASKS[j].id => i = j

IdsWithinCounter ==
    \A i \in DOMAIN TASKS : TASKS[i].id \in 1..task_id_counter

NoIdReused ==
    /\ \A i \in DOMAIN TASKS : TASKS[i].id \notin removed
    /\ removed \subseteq 1..task_id_counter

\* The body carries a title: it is an object with the key "title".
HasTitle(data) == data.kind = "object" /\ "title" \in DOMAIN data.fields

CreateWithoutTitle ==
    (request'.op = "createTask" /\ ~HasTitle(request'.data)) =>
        (TASKS' = TASKS /\ task_id_counter' = task_id_counter)

C24_TaskIds ==
    /\ [](DistinctIds /\ IdsWithinCounter /\ NoIdReused)
    /\ [][CreateWithoutTitle]_vars

====
